---- MODULE Spec2Model ----
(***************************************************************************)
(* The watch predicates of the ClusterHealthCheck reconciler               *)
(* (controllers/clusterhealthcheck_predicates.go).                         *)
(*                                                                         *)
(* Every predicate is a function of one watch event.  The model draws an   *)
(* event of one of the six watched kinds, hands it to the handler          *)
(* (Create, Update, Delete, Generic) the event is for, and records what    *)
(* the handler returns: "true", "false", or "panic" when the Go runtime    *)
(* faults inside the handler.  Of the handlers' log lines the model keeps   *)
(* their number: the log sink is the one thing the handlers share.  A      *)
(* second specification, SpecCallers, runs several handlers at once.       *)
(***************************************************************************)
EXTENDS Naturals, Sequences, FiniteSets, TLC

VARIABLES
    notification,   \* the event handed to a handler
    verdict,        \* what the handler returned, "none" before it has
    calls,          \* concurrent callers: each one's event, progress and verdict
    sink,           \* the number of lines the handlers have sent to the log sink
    object,         \* one watched object over its life: its kind and current state
    history,        \* what the notifications about that object have yielded so far
    registry        \* the kinds bound to a predicate, and what dispatch reported

vars == <<notification, verdict, calls, sink, object, history, registry>>

(***************************************************************************)
(* Bounds of the model.                                                    *)
(***************************************************************************)
\* longest sequence of insertions that builds a label map
MaxLabels == 2
\* longest Status.FeatureSummaries slice of a ClusterSummary
MaxFeatureSummaries == 2
\* longest Spec.ResourceStatuses slice of a HealthCheckReport
MaxResourceStatuses == 2
\* longest Spec.ResourceSelectors slice of a HealthCheck
MaxResourceSelectors == 2

(***************************************************************************)
(* Go values.                                                              *)
(***************************************************************************)
SeqsUpTo(S, n) == UNION {[1..k -> S] : k \in 0..n}

\* A slice: nil, or a (possibly empty) sequence of elements.
Slices(S, n) == {[isNil |-> TRUE, elems |-> <<>>]}
                  \cup {[isNil |-> FALSE, elems |-> s] : s \in SeqsUpTo(S, n)}

LabelKeys == {"env", "zone"}
LabelValues == {"prod", "dev"}

\* A map[string]string: nil, or the map built by a sequence of insertions
\* m[key] = value (a later insertion of a key overwrites an earlier one).
LabelMaps == {[isNil |-> TRUE, ins |-> <<>>]}
               \cup {[isNil |-> FALSE, ins |-> s] :
                       s \in SeqsUpTo(LabelKeys \X LabelValues, MaxLabels)}

RECURSIVE Entries(_)
\* The key/value mapping a sequence of insertions leaves in the map.
Entries(ins) ==
    IF ins = <<>> THEN [k \in {} |-> "prod"]
    ELSE LET n    == Len(ins)
             rest == Entries(SubSeq(ins, 1, n - 1))
             k    == ins[n][1]
             v    == ins[n][2]
         IN  [x \in (DOMAIN rest) \cup {k} |-> IF x = k THEN v ELSE rest[x]]

\* reflect.DeepEqual on two maps: both nil or both non-nil, the same
\* length, and every key of the one maps to an equal value in the other.
DeepEqualMap(a, b) ==
    LET ma == Entries(a.ins)
        mb == Entries(b.ins)
    IN  /\ a.isNil = b.isNil
        /\ Cardinality(DOMAIN ma) = Cardinality(DOMAIN mb)
        /\ \A k \in DOMAIN ma : k \in DOMAIN mb /\ ma[k] = mb[k]

\* reflect.DeepEqual on two slices: both nil or both non-nil, the same
\* length, and equal elements at every index.
DeepEqualSlice(a, b) ==
    /\ a.isNil = b.isNil
    /\ Len(a.elems) = Len(b.elems)
    /\ \A i \in 1..Len(a.elems) : a.elems[i] = b.elems[i]

(***************************************************************************)
(* The watched objects, by the fields the predicates read plus one field   *)
(* of each kind that they do not read.                                     *)
(***************************************************************************)
\* metadata.namespace and metadata.name of the namespaced objects the events
\* are about
ObjectKeys == {[Namespace |-> "ns1", Name |-> "a"],
               [Namespace |-> "ns2", Name |-> "b"]}
\* a HealthCheck is cluster-scoped: it has no namespace
ClusterScopedKeys == {[Namespace |-> "", Name |-> "a"],
                      [Namespace |-> "", Name |-> "b"]}

\* clusterv1.Cluster
Clusters ==
    {[Namespace |-> key.Namespace, Name |-> key.Name,
      Labels |-> l, Spec |-> sp, Status |-> st] :
        key \in ObjectKeys, l \in LabelMaps,
        sp \in [Paused : BOOLEAN], st \in [ControlPlaneReady : BOOLEAN]}

\* libsveltosv1beta1.SveltosCluster
SveltosClusters ==
    {[Namespace |-> key.Namespace, Name |-> key.Name,
      Labels |-> l, Spec |-> sp, Status |-> st] :
        key \in ObjectKeys, l \in LabelMaps,
        sp \in [Paused : BOOLEAN], st \in [Ready : BOOLEAN]}

MachinePhaseRunning == "Running"
MachinePhaseUnknown == "Unknown"
\* the phases clusterv1 defines besides Unknown
MachinePhases == {"Pending", "Provisioning", "Provisioned", "Running",
                  "Deleting", "Deleted", "Failed"}
\* Status.Phase is a free string
PhaseStrings == MachinePhases \cup {MachinePhaseUnknown, "", "Bogus"}

\* clusterv1.Machine
Machines ==
    {[Namespace |-> key.Namespace, Name |-> key.Name, Status |-> st] :
        key \in ObjectKeys,
        st \in [Phase : PhaseStrings, BootstrapReady : BOOLEAN]}

\* MachineStatus.GetTypedPhase: the phase when it is one clusterv1 defines,
\* Unknown for every other string.
GetTypedPhase(status) ==
    IF status.Phase \in MachinePhases THEN status.Phase ELSE MachinePhaseUnknown

FeatureSummaryEntries ==
    [FeatureID : {"Helm", "Resources"}, Status : {"Provisioned", "Failed"}]

\* configv1beta1.ClusterSummary
ClusterSummaries ==
    {[Namespace |-> key.Namespace, Name |-> key.Name, Spec |-> sp, Status |-> st] :
        key \in ObjectKeys,
        sp \in [ClusterName : {"c1", "c2"}],
        st \in [FeatureSummaries :
                   Slices(FeatureSummaryEntries, MaxFeatureSummaries)]}

\* libsveltosv1beta1.HealthCheckReport
HealthCheckReports ==
    {[Namespace |-> key.Namespace, Name |-> key.Name, Spec |-> sp, Status |-> st] :
        key \in ObjectKeys,
        sp \in [HealthCheckName  : {"hc1", "hc2"},
                ResourceStatuses :
                    Slices({"Healthy", "Degraded"}, MaxResourceStatuses)],
        st \in [Phase : {"WaitingForDelivery", "Processed"}]}

\* libsveltosv1beta1.HealthCheck
HealthChecks ==
    {[Namespace |-> key.Namespace, Name |-> key.Name, Labels |-> l, Spec |-> sp] :
        key \in ClusterScopedKeys,
        l \in {"", "team=a"},
        sp \in [EvaluateHealth    : {"lua1", "lua2"},
                ResourceSelectors :
                    Slices({"Deployment", "Pod"}, MaxResourceSelectors)]}

(***************************************************************************)
(* Events.  A typed predicate (ClusterPredicate, MachinePredicate) gets    *)
(* pointers: "ptr" to an object, or "nilptr".  A predicate.Funcs bundle    *)
(* gets client.Object interface values: "ptr", a nil pointer of the kind's *)
(* type ("nilptr"), or the nil interface ("nilif").  The new object of an  *)
(* Update and the object of a Create, Delete or Generic event are always   *)
(* present.  The handlers read the namespace and the name of that object   *)
(* for their log lines.                                                    *)
(***************************************************************************)
Ptr(o) == [rep |-> "ptr", obj |-> o]
NilPtr == [rep |-> "nilptr"]
NilInterface == [rep |-> "nilif"]

Typed == {"Cluster", "Machine"}
Bundles == {"SveltosCluster", "ClusterSummary", "HealthCheckReport", "HealthCheck"}
Kinds == Typed \cup Bundles
\* the two kinds of cluster
ClusterKinds == {"Cluster", "SveltosCluster"}

Objects(kind) ==
    CASE kind = "Cluster"           -> Clusters
      [] kind = "Machine"           -> Machines
      [] kind = "SveltosCluster"    -> SveltosClusters
      [] kind = "ClusterSummary"    -> ClusterSummaries
      [] kind = "HealthCheckReport" -> HealthCheckReports
      [] kind = "HealthCheck"       -> HealthChecks

\* the values an Update event's ObjectOld can hold
OldObjects(kind) ==
    {Ptr(o) : o \in Objects(kind)} \cup {NilPtr}
      \cup (IF kind \in Bundles THEN {NilInterface} ELSE {})

\* an Update event is about one object: the old object, when the event
\* carries one, has the namespace and the name of the new one
SameObject(old, new) ==
    old.rep = "ptr" =>
        old.obj.Namespace = new.Namespace /\ old.obj.Name = new.Name

Bool(b) == IF b THEN "true" ELSE "false"

\* x.(*T) on an interface value of the kind's own type: the runtime panics
\* on the nil interface, and yields the pointer (nil or not) otherwise.
TypeAssertionPanics(x) == x.rep = "nilif"

(***************************************************************************)
(* ClusterPredicate: the typed predicate for clusterv1.Cluster.            *)
(***************************************************************************)
\* ClusterPredicateCreate that also wants the cluster to carry labels
ClusterPredicateCreateLabelled(obj) ==
    LET cluster == obj.Object.obj
    IN  IF ~cluster.Spec.Paused /\ ~cluster.Labels.isNil THEN "true" ELSE "false"

ClusterPredicateCreate(obj) ==
    LET cluster == obj.Object.obj
    IN  IF ~cluster.Spec.Paused THEN "true" ELSE "false"

\* ClusterPredicateUpdate that passes over the clusters of namespace ns2
ClusterPredicateUpdateSkipNamespace(obj) ==
    LET newCluster == obj.ObjectNew
        oldCluster == obj.ObjectOld
    IN  IF newCluster.obj.Namespace = "ns2" THEN "false"
        ELSE IF oldCluster.rep = "nilptr" THEN "true"
        ELSE IF oldCluster.obj.Spec.Paused /\ ~newCluster.obj.Spec.Paused
             THEN "true"
        ELSE IF ~DeepEqualMap(oldCluster.obj.Labels, newCluster.obj.Labels)
             THEN "true"
        ELSE "false"

\* ClusterPredicateUpdate that tests the new pause flag alone
ClusterPredicateUpdateUnpaused(obj) ==
    LET newCluster == obj.ObjectNew
        oldCluster == obj.ObjectOld
    IN  IF oldCluster.rep = "nilptr" THEN "true"
        ELSE IF ~newCluster.obj.Spec.Paused THEN "true"
        ELSE IF ~DeepEqualMap(oldCluster.obj.Labels, newCluster.obj.Labels)
             THEN "true"
        ELSE "false"

ClusterPredicateUpdate(obj) ==
    LET newCluster == obj.ObjectNew
        oldCluster == obj.ObjectOld
    IN  IF oldCluster.rep = "nilptr" THEN "true"
        ELSE IF oldCluster.obj.Spec.Paused /\ ~newCluster.obj.Spec.Paused
             THEN "true"
        ELSE IF ~DeepEqualMap(oldCluster.obj.Labels, newCluster.obj.Labels)
             THEN "true"
        ELSE "false"

\* a Delete that answers as Create does
ClusterPredicateDeleteAsCreate(obj) ==
    IF ~obj.Object.obj.Spec.Paused THEN "true" ELSE "false"

ClusterPredicateDelete(obj) == "true"

ClusterPredicateGeneric(obj) == "false"

(***************************************************************************)
(* MachinePredicate: the typed predicate for clusterv1.Machine.            *)
(***************************************************************************)
\* MachinePredicateCreate that takes every phase clusterv1 defines
MachinePredicateCreateAnyPhase(obj) ==
    LET machine == obj.Object.obj
    IN  IF GetTypedPhase(machine.Status) # MachinePhaseUnknown
        THEN "true" ELSE "false"

MachinePredicateCreate(obj) ==
    LET machine == obj.Object.obj
    IN  IF GetTypedPhase(machine.Status) = MachinePhaseRunning
        THEN "true" ELSE "false"

\* MachinePredicateUpdate with the nil test ahead of the phase test
MachinePredicateUpdateNilFirst(obj) ==
    LET newMachine == obj.ObjectNew
        oldMachine == obj.ObjectOld
    IN  IF oldMachine.rep = "nilptr" THEN "true"
        ELSE IF GetTypedPhase(newMachine.obj.Status) # MachinePhaseRunning
             THEN "false"
        ELSE IF GetTypedPhase(oldMachine.obj.Status)
                  # GetTypedPhase(newMachine.obj.Status)
             THEN "true"
        ELSE "false"

\* MachinePredicateUpdate that looks at the new phase only
MachinePredicateUpdateWheneverRunning(obj) ==
    LET newMachine == obj.ObjectNew
    IN  IF GetTypedPhase(newMachine.obj.Status) # MachinePhaseRunning
        THEN "false" ELSE "true"

\* MachinePredicateUpdate that lets an update through only while no other
\* handler has logged yet
MachinePredicateUpdateWhileQuiet(obj) ==
    LET newMachine == obj.ObjectNew
        oldMachine == obj.ObjectOld
    IN  IF sink > 0 THEN "false"
        ELSE IF GetTypedPhase(newMachine.obj.Status) # MachinePhaseRunning
             THEN "false"
        ELSE IF oldMachine.rep = "nilptr" THEN "true"
        ELSE IF GetTypedPhase(oldMachine.obj.Status)
                  # GetTypedPhase(newMachine.obj.Status)
             THEN "true"
        ELSE "false"

MachinePredicateUpdate(obj) ==
    LET newMachine == obj.ObjectNew
        oldMachine == obj.ObjectOld
    IN  IF GetTypedPhase(newMachine.obj.Status) # MachinePhaseRunning
             THEN "false"
        ELSE IF oldMachine.rep = "nilptr" THEN "true"
        ELSE IF GetTypedPhase(oldMachine.obj.Status)
                  # GetTypedPhase(newMachine.obj.Status)
             THEN "true"
        ELSE "false"

\* a Delete that answers as Create does
MachinePredicateDeleteAsCreate(obj) ==
    IF GetTypedPhase(obj.Object.obj.Status) = MachinePhaseRunning
    THEN "true" ELSE "false"

MachinePredicateDelete(obj) == "false"

MachinePredicateGeneric(obj) == "false"

(***************************************************************************)
(* SveltosClusterPredicates: the predicate.Funcs bundle for                *)
(* libsveltosv1beta1.SveltosCluster.                                       *)
(***************************************************************************)
SveltosClusterPredicatesUpdateFunc(e) ==
    IF TypeAssertionPanics(e.ObjectNew) \/ TypeAssertionPanics(e.ObjectOld)
    THEN "panic"
    ELSE LET newCluster == e.ObjectNew
             oldCluster == e.ObjectOld
         IN  IF oldCluster.rep = "nilptr" THEN "true"
             ELSE IF oldCluster.obj.Spec.Paused /\ ~newCluster.obj.Spec.Paused
                  THEN "true"
             ELSE IF ~oldCluster.obj.Status.Ready /\ newCluster.obj.Status.Ready
                  THEN "true"
             ELSE IF ~DeepEqualMap(oldCluster.obj.Labels, newCluster.obj.Labels)
                  THEN "true"
             ELSE "false"

SveltosClusterPredicatesCreateFunc(e) ==
    IF TypeAssertionPanics(e.Object) THEN "panic"
    ELSE LET cluster == e.Object.obj
         IN  IF ~cluster.Spec.Paused THEN "true" ELSE "false"

SveltosClusterPredicatesDeleteFunc(e) == "true"

SveltosClusterPredicatesGenericFunc(e) == "false"

(***************************************************************************)
(* ClusterSummaryPredicates: the bundle for configv1beta1.ClusterSummary.  *)
(***************************************************************************)
ClusterSummaryPredicatesUpdateFunc(e) ==
    IF TypeAssertionPanics(e.ObjectNew) \/ TypeAssertionPanics(e.ObjectOld)
    THEN "panic"
    ELSE LET newClusterSummary == e.ObjectNew
             oldClusterSummary == e.ObjectOld
         IN  IF oldClusterSummary.rep = "nilptr" THEN "true"
             ELSE IF ~DeepEqualSlice(oldClusterSummary.obj.Status.FeatureSummaries,
                                     newClusterSummary.obj.Status.FeatureSummaries)
                  THEN "true"
             ELSE "false"

\* a CreateFunc that takes a summary created with feature summaries
ClusterSummaryPredicatesCreateFuncNonEmpty(e) ==
    IF Len(e.Object.obj.Status.FeatureSummaries.elems) > 0 THEN "true" ELSE "false"

ClusterSummaryPredicatesCreateFunc(e) == "false"

ClusterSummaryPredicatesDeleteFunc(e) == "true"

\* a GenericFunc that answers as the bundle's UpdateFunc does without an old object
ClusterSummaryPredicatesGenericFuncRelevant(e) == "true"

ClusterSummaryPredicatesGenericFunc(e) == "false"

(***************************************************************************)
(* HealthCheckReportPredicates: the bundle for HealthCheckReport.          *)
(***************************************************************************)
\* reflect.DeepEqual on two HealthCheckReportSpec structs: field by field.
DeepEqualHealthCheckReportSpec(a, b) ==
    /\ a.HealthCheckName = b.HealthCheckName
    /\ DeepEqualSlice(a.ResourceStatuses, b.ResourceStatuses)

HealthCheckReportPredicatesUpdateFunc(e) ==
    IF TypeAssertionPanics(e.ObjectNew) \/ TypeAssertionPanics(e.ObjectOld)
    THEN "panic"
    ELSE LET newHCR == e.ObjectNew
             oldHCR == e.ObjectOld
         IN  IF oldHCR.rep = "nilptr" THEN "true"
             ELSE IF ~DeepEqualHealthCheckReportSpec(oldHCR.obj.Spec, newHCR.obj.Spec)
                  THEN "true"
             ELSE "false"

\* a CreateFunc that remembers, in state the calls share, that it has let a
\* report through, and lets no second one through
HealthCheckReportPredicatesCreateFuncOnce(e) ==
    IF sink > 0 THEN "false" ELSE "true"

HealthCheckReportPredicatesCreateFunc(e) == "true"

HealthCheckReportPredicatesDeleteFunc(e) == "true"

HealthCheckReportPredicatesGenericFunc(e) == "false"

(***************************************************************************)
(* HealthCheckPredicates: the bundle for HealthCheck.                      *)
(***************************************************************************)
\* reflect.DeepEqual on two HealthCheckSpec structs: field by field.
DeepEqualHealthCheckSpec(a, b) ==
    /\ a.EvaluateHealth = b.EvaluateHealth
    /\ DeepEqualSlice(a.ResourceSelectors, b.ResourceSelectors)

\* HealthCheckPredicatesUpdateFunc without the comparison of the two Specs
HealthCheckPredicatesUpdateFuncAlways(e) ==
    IF TypeAssertionPanics(e.ObjectNew) \/ TypeAssertionPanics(e.ObjectOld)
    THEN "panic"
    ELSE "true"

HealthCheckPredicatesUpdateFunc(e) ==
    IF TypeAssertionPanics(e.ObjectNew) \/ TypeAssertionPanics(e.ObjectOld)
    THEN "panic"
    ELSE LET newHC == e.ObjectNew
             oldHC == e.ObjectOld
         IN  IF oldHC.rep = "nilptr" THEN "true"
             ELSE IF ~DeepEqualHealthCheckSpec(oldHC.obj.Spec, newHC.obj.Spec)
                  THEN "true"
             ELSE "false"

\* a CreateFunc that answers as the ClusterSummary one does
HealthCheckPredicatesCreateFuncIrrelevant(e) == "false"

HealthCheckPredicatesCreateFunc(e) == "true"

HealthCheckPredicatesDeleteFunc(e) == "true"

HealthCheckPredicatesGenericFunc(e) == "false"

(***************************************************************************)
(* The watch hands an event to the handler of its predicate for the        *)
(* event's operation.                                                      *)
(***************************************************************************)
Evaluate(n) ==
    CASE n.kind = "Cluster" ->
           (CASE n.operation = "Create"  -> ClusterPredicateCreate(n.e)
              [] n.operation = "Update"  -> ClusterPredicateUpdate(n.e)
              [] n.operation = "Delete"  -> ClusterPredicateDelete(n.e)
              [] n.operation = "Generic" -> ClusterPredicateGeneric(n.e))
      [] n.kind = "Machine" ->
           (CASE n.operation = "Create"  -> MachinePredicateCreate(n.e)
              [] n.operation = "Update"  -> MachinePredicateUpdate(n.e)
              [] n.operation = "Delete"  -> MachinePredicateDelete(n.e)
              [] n.operation = "Generic" -> MachinePredicateGeneric(n.e))
      [] n.kind = "SveltosCluster" ->
           (CASE n.operation = "Create"  -> SveltosClusterPredicatesCreateFunc(n.e)
              [] n.operation = "Update"  -> SveltosClusterPredicatesUpdateFunc(n.e)
              [] n.operation = "Delete"  -> SveltosClusterPredicatesDeleteFunc(n.e)
              [] n.operation = "Generic" -> SveltosClusterPredicatesGenericFunc(n.e))
      [] n.kind = "ClusterSummary" ->
           (CASE n.operation = "Create"  -> ClusterSummaryPredicatesCreateFunc(n.e)
              [] n.operation = "Update"  -> ClusterSummaryPredicatesUpdateFunc(n.e)
              [] n.operation = "Delete"  -> ClusterSummaryPredicatesDeleteFunc(n.e)
              [] n.operation = "Generic" -> ClusterSummaryPredicatesGenericFunc(n.e))
      [] n.kind = "HealthCheckReport" ->
           (CASE n.operation = "Create"  -> HealthCheckReportPredicatesCreateFunc(n.e)
              [] n.operation = "Update"  -> HealthCheckReportPredicatesUpdateFunc(n.e)
              [] n.operation = "Delete"  -> HealthCheckReportPredicatesDeleteFunc(n.e)
              [] n.operation = "Generic" -> HealthCheckReportPredicatesGenericFunc(n.e))
      [] n.kind = "HealthCheck" ->
           (CASE n.operation = "Create"  -> HealthCheckPredicatesCreateFunc(n.e)
              [] n.operation = "Update"  -> HealthCheckPredicatesUpdateFunc(n.e)
              [] n.operation = "Delete"  -> HealthCheckPredicatesDeleteFunc(n.e)
              [] n.operation = "Generic" -> HealthCheckPredicatesGenericFunc(n.e))

\* The number of log.V(logs.LogVerbose).Info calls the handler makes on n:
\* one on every path that returns, but for MachinePredicate.Create returning
\* true and MachinePredicate.Update on a new phase other than Running, which
\* return before any; none when the handler panics on its type assertion.
InfoCalls(n) ==
    IF Evaluate(n) = "panic" THEN 0
    ELSE IF n.kind = "Machine" /\ n.operation = "Create"
              /\ Evaluate(n) = "true" THEN 0
    ELSE IF n.kind = "Machine" /\ n.operation = "Update"
              /\ GetTypedPhase(n.e.ObjectNew.obj.Status) # MachinePhaseRunning THEN 0
    ELSE 1

(***************************************************************************)
(* The state machine: an event is drawn, its handler runs once.            *)
(***************************************************************************)
\* the events of kind k: one object for Create, Delete and Generic, the old
\* and the new object for Update
CreateEvent(k, o) ==
    [kind |-> k, operation |-> "Create", e |-> [Object |-> Ptr(o)]]
DeleteEvent(k, o) ==
    [kind |-> k, operation |-> "Delete", e |-> [Object |-> Ptr(o)]]
GenericEvent(k, o) ==
    [kind |-> k, operation |-> "Generic", e |-> [Object |-> Ptr(o)]]
UpdateEvent(k, old, new) ==
    [kind |-> k, operation |-> "Update",
     e |-> [ObjectOld |-> old, ObjectNew |-> Ptr(new)]]

\* every kind is bound to its predicate, and dispatch has reported nothing
AllBound == [bound |-> Kinds, errors |-> 0, fatal |-> FALSE]
\* no object is followed over its life
NoObject == [kind |-> "none", exists |-> FALSE]
\* nothing has been yielded yet
NoHistory ==
    [announced    |-> FALSE,    \* a true verdict since the latest Create
     lastTrueSpec |-> <<>>,     \* the Spec the latest true verdict's event carried
     absentOld    |-> FALSE,    \* an Update came without an old object
     hadTrue      |-> FALSE,    \* some verdict was true
     left         |-> FALSE,    \* since the latest true verdict, a machine's
                                \* state had a phase other than Running
     recreated    |-> FALSE,    \* since the latest true verdict, a Delete came
     \* at the latest true verdict: whether it was the first one, and
     \* `left` and `recreated` as they were then
     gap          |-> [first |-> FALSE, left |-> FALSE, recreated |-> FALSE]]

Init ==
    /\ verdict = "none"
    /\ calls = <<>>
    /\ sink = 0
    /\ object = NoObject
    /\ history = NoHistory
    /\ registry = AllBound
    /\ \E k \in Kinds :
          \/ \E o \in Objects(k) :
                \/ notification = CreateEvent(k, o)
                \/ notification = DeleteEvent(k, o)
                \/ notification = GenericEvent(k, o)
          \/ \E old \in OldObjects(k), new \in Objects(k) :
                /\ SameObject(old, new)
                /\ notification = UpdateEvent(k, old, new)

\* the handler of `kind` for `op` is about to be called with the event
Pending(kind, op) ==
    /\ verdict = "none"
    /\ notification.kind = kind
    /\ notification.operation = op

ClusterCreate ==
    /\ Pending("Cluster", "Create")
    /\ verdict' = ClusterPredicateCreate(notification.e)
    /\ sink' = sink + InfoCalls(notification)
    /\ UNCHANGED <<notification, calls, object, history, registry>>

\* ClusterUpdate by a handler that replaces a nil label map of the new
\* object by an empty one before it compares
ClusterUpdateNormalising ==
    /\ Pending("Cluster", "Update")
    /\ verdict' = ClusterPredicateUpdate(notification.e)
    /\ notification' =
         [notification EXCEPT !.e.ObjectNew.obj.Labels =
              IF @.isNil THEN [isNil |-> FALSE, ins |-> <<>>] ELSE @]
    /\ sink' = sink + InfoCalls(notification)
    /\ UNCHANGED <<calls, object, history, registry>>

ClusterUpdate ==
    /\ Pending("Cluster", "Update")
    /\ verdict' = ClusterPredicateUpdate(notification.e)
    /\ sink' = sink + InfoCalls(notification)
    /\ UNCHANGED <<notification, calls, object, history, registry>>

ClusterDelete ==
    /\ Pending("Cluster", "Delete")
    /\ verdict' = ClusterPredicateDelete(notification.e)
    /\ sink' = sink + InfoCalls(notification)
    /\ UNCHANGED <<notification, calls, object, history, registry>>

ClusterGeneric ==
    /\ Pending("Cluster", "Generic")
    /\ verdict' = ClusterPredicateGeneric(notification.e)
    /\ sink' = sink + InfoCalls(notification)
    /\ UNCHANGED <<notification, calls, object, history, registry>>

MachineCreate ==
    /\ Pending("Machine", "Create")
    /\ verdict' = MachinePredicateCreate(notification.e)
    /\ sink' = sink + InfoCalls(notification)
    /\ UNCHANGED <<notification, calls, object, history, registry>>

MachineUpdate ==
    /\ Pending("Machine", "Update")
    /\ verdict' = MachinePredicateUpdate(notification.e)
    /\ sink' = sink + InfoCalls(notification)
    /\ UNCHANGED <<notification, calls, object, history, registry>>

MachineDelete ==
    /\ Pending("Machine", "Delete")
    /\ verdict' = MachinePredicateDelete(notification.e)
    /\ sink' = sink + InfoCalls(notification)
    /\ UNCHANGED <<notification, calls, object, history, registry>>

MachineGeneric ==
    /\ Pending("Machine", "Generic")
    /\ verdict' = MachinePredicateGeneric(notification.e)
    /\ sink' = sink + InfoCalls(notification)
    /\ UNCHANGED <<notification, calls, object, history, registry>>

SveltosClusterCreate ==
    /\ Pending("SveltosCluster", "Create")
    /\ verdict' = SveltosClusterPredicatesCreateFunc(notification.e)
    /\ sink' = sink + InfoCalls(notification)
    /\ UNCHANGED <<notification, calls, object, history, registry>>

SveltosClusterUpdate ==
    /\ Pending("SveltosCluster", "Update")
    /\ verdict' = SveltosClusterPredicatesUpdateFunc(notification.e)
    /\ sink' = sink + InfoCalls(notification)
    /\ UNCHANGED <<notification, calls, object, history, registry>>

SveltosClusterDelete ==
    /\ Pending("SveltosCluster", "Delete")
    /\ verdict' = SveltosClusterPredicatesDeleteFunc(notification.e)
    /\ sink' = sink + InfoCalls(notification)
    /\ UNCHANGED <<notification, calls, object, history, registry>>

SveltosClusterGeneric ==
    /\ Pending("SveltosCluster", "Generic")
    /\ verdict' = SveltosClusterPredicatesGenericFunc(notification.e)
    /\ sink' = sink + InfoCalls(notification)
    /\ UNCHANGED <<notification, calls, object, history, registry>>

ClusterSummaryCreate ==
    /\ Pending("ClusterSummary", "Create")
    /\ verdict' = ClusterSummaryPredicatesCreateFunc(notification.e)
    /\ sink' = sink + InfoCalls(notification)
    /\ UNCHANGED <<notification, calls, object, history, registry>>

ClusterSummaryUpdate ==
    /\ Pending("ClusterSummary", "Update")
    /\ verdict' = ClusterSummaryPredicatesUpdateFunc(notification.e)
    /\ sink' = sink + InfoCalls(notification)
    /\ UNCHANGED <<notification, calls, object, history, registry>>

ClusterSummaryDelete ==
    /\ Pending("ClusterSummary", "Delete")
    /\ verdict' = ClusterSummaryPredicatesDeleteFunc(notification.e)
    /\ sink' = sink + InfoCalls(notification)
    /\ UNCHANGED <<notification, calls, object, history, registry>>

ClusterSummaryGeneric ==
    /\ Pending("ClusterSummary", "Generic")
    /\ verdict' = ClusterSummaryPredicatesGenericFunc(notification.e)
    /\ sink' = sink + InfoCalls(notification)
    /\ UNCHANGED <<notification, calls, object, history, registry>>

HealthCheckReportCreate ==
    /\ Pending("HealthCheckReport", "Create")
    /\ verdict' = HealthCheckReportPredicatesCreateFunc(notification.e)
    /\ sink' = sink + InfoCalls(notification)
    /\ UNCHANGED <<notification, calls, object, history, registry>>

HealthCheckReportUpdate ==
    /\ Pending("HealthCheckReport", "Update")
    /\ verdict' = HealthCheckReportPredicatesUpdateFunc(notification.e)
    /\ sink' = sink + InfoCalls(notification)
    /\ UNCHANGED <<notification, calls, object, history, registry>>

HealthCheckReportDelete ==
    /\ Pending("HealthCheckReport", "Delete")
    /\ verdict' = HealthCheckReportPredicatesDeleteFunc(notification.e)
    /\ sink' = sink + InfoCalls(notification)
    /\ UNCHANGED <<notification, calls, object, history, registry>>

HealthCheckReportGeneric ==
    /\ Pending("HealthCheckReport", "Generic")
    /\ verdict' = HealthCheckReportPredicatesGenericFunc(notification.e)
    /\ sink' = sink + InfoCalls(notification)
    /\ UNCHANGED <<notification, calls, object, history, registry>>

HealthCheckCreate ==
    /\ Pending("HealthCheck", "Create")
    /\ verdict' = HealthCheckPredicatesCreateFunc(notification.e)
    /\ sink' = sink + InfoCalls(notification)
    /\ UNCHANGED <<notification, calls, object, history, registry>>

HealthCheckUpdate ==
    /\ Pending("HealthCheck", "Update")
    /\ verdict' = HealthCheckPredicatesUpdateFunc(notification.e)
    /\ sink' = sink + InfoCalls(notification)
    /\ UNCHANGED <<notification, calls, object, history, registry>>

HealthCheckDelete ==
    /\ Pending("HealthCheck", "Delete")
    /\ verdict' = HealthCheckPredicatesDeleteFunc(notification.e)
    /\ sink' = sink + InfoCalls(notification)
    /\ UNCHANGED <<notification, calls, object, history, registry>>

HealthCheckGeneric ==
    /\ Pending("HealthCheck", "Generic")
    /\ verdict' = HealthCheckPredicatesGenericFunc(notification.e)
    /\ sink' = sink + InfoCalls(notification)
    /\ UNCHANGED <<notification, calls, object, history, registry>>

Next ==
    \/ ClusterCreate \/ ClusterUpdate \/ ClusterDelete \/ ClusterGeneric
    \/ MachineCreate \/ MachineUpdate \/ MachineDelete \/ MachineGeneric
    \/ SveltosClusterCreate \/ SveltosClusterUpdate
    \/ SveltosClusterDelete \/ SveltosClusterGeneric
    \/ ClusterSummaryCreate \/ ClusterSummaryUpdate
    \/ ClusterSummaryDelete \/ ClusterSummaryGeneric
    \/ HealthCheckReportCreate \/ HealthCheckReportUpdate
    \/ HealthCheckReportDelete \/ HealthCheckReportGeneric
    \/ HealthCheckCreate \/ HealthCheckUpdate
    \/ HealthCheckDelete \/ HealthCheckGeneric

Spec == Init /\ [][Next]_vars

(***************************************************************************)
(* Several callers at once.  The watches of the kinds run in goroutines of *)
(* their own, so handlers run concurrently: a caller enters a handler with *)
(* its event (Call) and, any number of steps of other callers later, the   *)
(* handler writes its log lines to the shared sink and returns (Return).   *)
(* The handlers have no receiver state and no package variable: the event  *)
(* and the sink are all they touch.                                        *)
(***************************************************************************)
\* callers that submit again an event another caller submits
MaxReevaluations == 1

Callers == 1..(5 + MaxReevaluations)

NoLabels == [isNil |-> TRUE, ins |-> <<>>]

\* the events the five first callers submit, by caller:
\*   1  an Update of a cluster of either kind that clears Spec.Paused
\*   2  an Update of a machine from Provisioning to Running
\*   3  a Create of a HealthCheckReport
\*   4  an Update of a ClusterSummary that leaves FeatureSummaries as it was
\*   5  a Generic event of any kind
Submissions(c) ==
    CASE c = 1 ->
           {UpdateEvent("Cluster",
               Ptr([Namespace |-> "ns1", Name |-> "a", Labels |-> NoLabels,
                    Spec |-> [Paused |-> TRUE],
                    Status |-> [ControlPlaneReady |-> FALSE]]),
               [Namespace |-> "ns1", Name |-> "a", Labels |-> NoLabels,
                Spec |-> [Paused |-> FALSE],
                Status |-> [ControlPlaneReady |-> FALSE]]),
            UpdateEvent("SveltosCluster",
               Ptr([Namespace |-> "ns1", Name |-> "a", Labels |-> NoLabels,
                    Spec |-> [Paused |-> TRUE], Status |-> [Ready |-> TRUE]]),
               [Namespace |-> "ns1", Name |-> "a", Labels |-> NoLabels,
                Spec |-> [Paused |-> FALSE], Status |-> [Ready |-> TRUE]])}
      [] c = 2 ->
           {UpdateEvent("Machine",
               Ptr([Namespace |-> "ns1", Name |-> "a",
                    Status |-> [Phase |-> "Provisioning",
                                BootstrapReady |-> FALSE]]),
               [Namespace |-> "ns1", Name |-> "a",
                Status |-> [Phase |-> "Running", BootstrapReady |-> TRUE]])}
      [] c = 3 ->
           {CreateEvent("HealthCheckReport",
               [Namespace |-> "ns1", Name |-> "a",
                Spec |-> [HealthCheckName |-> "hc1",
                          ResourceStatuses |-> [isNil |-> TRUE, elems |-> <<>>]],
                Status |-> [Phase |-> "WaitingForDelivery"]])}
      [] c = 4 ->
           {UpdateEvent("ClusterSummary",
               Ptr([Namespace |-> "ns1", Name |-> "a",
                    Spec |-> [ClusterName |-> "c1"],
                    Status |-> [FeatureSummaries |-> fs]]),
               [Namespace |-> "ns1", Name |-> "a",
                Spec |-> [ClusterName |-> "c2"],
                Status |-> [FeatureSummaries |-> fs]]) :
              fs \in {[isNil |-> FALSE,
                       elems |-> <<[FeatureID |-> "Helm",
                                    Status |-> "Provisioned"]>>]}}
      [] c = 5 ->
           {GenericEvent(k, CHOOSE o \in Objects(k) : TRUE) : k \in Kinds}

InitCallers ==
    /\ notification = [kind |-> "none"]
    /\ verdict = "none"
    /\ sink = 0
    /\ object = NoObject
    /\ history = NoHistory
    /\ registry = AllBound
    /\ \E e1 \in Submissions(1), e2 \in Submissions(2), e3 \in Submissions(3),
          e4 \in Submissions(4), e5 \in Submissions(5) :
          \E again \in [Callers \ (1..5) -> {e1, e2, e3, e4, e5}] :
             calls = [c \in Callers |->
                        [n       |-> IF c <= 5 THEN <<e1, e2, e3, e4, e5>>[c]
                                     ELSE again[c],
                         pc      |-> "pending",
                         verdict |-> "none"]]

\* caller c enters the handler of its event
Call(c) ==
    /\ calls[c].pc = "pending"
    /\ calls' = [calls EXCEPT ![c].pc = "running"]
    /\ UNCHANGED <<notification, verdict, sink, object, history, registry>>

\* the handler that caller c entered logs and returns
Return(c) ==
    /\ calls[c].pc = "running"
    /\ calls' = [calls EXCEPT ![c].pc = "done",
                              ![c].verdict = Evaluate(calls[c].n)]
    /\ sink' = sink + InfoCalls(calls[c].n)
    /\ UNCHANGED <<notification, verdict, object, history, registry>>

NextCallers == \E c \in Callers : Call(c) \/ Return(c)

SpecCallers == InitCallers /\ [][NextCallers]_vars

(***************************************************************************)
(* One object over its life.  The watch of the object's kind reports what  *)
(* happens to it: its creation, each update (with the state before it, or  *)
(* without an old object), a resynchronisation (Generic, with the current  *)
(* state), its deletion, and possibly a new creation after that.  Each     *)
(* event goes through the handler of its kind and operation.  A panic ends *)
(* the process.                                                            *)
(***************************************************************************)
\* log lines after which the run is no longer followed
MaxLogLines == 4

\* the states of the one object of `kind` that is followed: those of the
\* object named "a" whose label map, or whose slice, has at most one entry
Revisions(kind) ==
    {o \in Objects(kind) :
        /\ o.Name = "a"
        /\ CASE kind \in ClusterKinds -> Len(o.Labels.ins) <= 1
             [] kind = "ClusterSummary" ->
                  Len(o.Status.FeatureSummaries.elems) <= 1
             [] kind = "HealthCheckReport" ->
                  Len(o.Spec.ResourceStatuses.elems) <= 1
             [] kind = "HealthCheck" ->
                  Len(o.Spec.ResourceSelectors.elems) <= 1
             [] OTHER -> TRUE}

\* the state an event carries: the new object of an Update, the object of a
\* Create, Delete or Generic event
Carried(n) ==
    IF n.operation = "Update" THEN n.e.ObjectNew.obj ELSE n.e.Object.obj

\* the history after event n got verdict v
Observe(h, n, v) ==
    LET yes   == v = "true"
        state == Carried(n)
        away  == /\ n.kind = "Machine"
                 /\ GetTypedPhase(state.Status) # MachinePhaseRunning
    IN  [announced    |-> IF n.operation = "Create" THEN yes
                          ELSE h.announced \/ yes,
         lastTrueSpec |-> IF yes
                          THEN (IF n.kind = "Machine" THEN <<>>
                                ELSE <<state.Spec>>)
                          ELSE h.lastTrueSpec,
         absentOld    |-> h.absentOld
                            \/ (n.operation = "Update" /\ n.e.ObjectOld.rep # "ptr"),
         hadTrue      |-> h.hadTrue \/ yes,
         left         |-> IF yes THEN FALSE ELSE h.left \/ away,
         recreated    |-> IF yes THEN FALSE
                          ELSE h.recreated \/ n.operation = "Delete",
         gap          |-> IF yes
                          THEN [first     |-> ~h.hadTrue,
                                left      |-> h.left,
                                recreated |-> h.recreated]
                          ELSE h.gap]

InitWatch ==
    /\ notification = [kind |-> "none"]
    /\ verdict = "none"
    /\ calls = <<>>
    /\ sink = 0
    /\ history = NoHistory
    /\ registry = AllBound
    /\ \E k \in Kinds : object = [kind |-> k, exists |-> FALSE]

\* the process is up and the run is still followed
Watching == verdict # "panic" /\ sink < MaxLogLines

\* event n reaches its handler, which logs and returns its verdict
Deliver(n) ==
    /\ notification' = n
    /\ verdict' = Evaluate(n)
    /\ sink' = sink + InfoCalls(n)
    /\ history' = Observe(history, n, Evaluate(n))
    /\ UNCHANGED <<calls, registry>>

ObjectCreated ==
    /\ Watching
    /\ ~object.exists
    /\ \E o \in Revisions(object.kind) :
          /\ Deliver(CreateEvent(object.kind, o))
          /\ object' = [kind |-> object.kind, exists |-> TRUE, state |-> o]

ObjectUpdated ==
    /\ Watching
    /\ object.exists
    /\ \E new \in Revisions(object.kind) :
       \E old \in {Ptr(object.state), NilPtr}
                    \cup (IF object.kind \in Bundles THEN {NilInterface} ELSE {}) :
          /\ Deliver(UpdateEvent(object.kind, old, new))
          /\ object' = [object EXCEPT !.state = new]

ObjectResynced ==
    /\ Watching
    /\ object.exists
    /\ Deliver(GenericEvent(object.kind, object.state))
    /\ UNCHANGED object

ObjectDeleted ==
    /\ Watching
    /\ object.exists
    /\ Deliver(DeleteEvent(object.kind, object.state))
    /\ object' = [kind |-> object.kind, exists |-> FALSE]

NextWatch ==
    \/ ObjectCreated
    \/ ObjectUpdated
    \/ ObjectResynced
    \/ ObjectDeleted

SpecWatch == InitWatch /\ [][NextWatch]_vars

(***************************************************************************)
(* The registry that dispatches a notification to the predicate bound to   *)
(* its kind.  The binding of kinds to predicates is not part of the        *)
(* predicates' file; it is modelled here from the specification of the     *)
(* registry: register binds a kind at start-up and is fatal for a kind     *)
(* that is already bound; evaluate looks the kind up, calls the predicate  *)
(* when there is one and otherwise either is fatal or reports an error and *)
(* answers true.                                                           *)
(***************************************************************************)
\* a kind for which no predicate exists
UnknownKind == "ConfigMap"

\* the notifications handed to the registry: for each kind with a predicate,
\* one event per operation about one object; and the same for the kind
\* without one
RegistryEvents ==
    UNION {LET o == CHOOSE x \in Objects(k) : TRUE
           IN  {CreateEvent(k, o), DeleteEvent(k, o), GenericEvent(k, o),
                UpdateEvent(k, Ptr(o), o)} : k \in Kinds}
      \cup (LET o == [Namespace |-> "ns1", Name |-> "a"]
            IN  {CreateEvent(UnknownKind, o), DeleteEvent(UnknownKind, o),
                 GenericEvent(UnknownKind, o),
                 UpdateEvent(UnknownKind, Ptr(o), o)})

InitRegistry ==
    /\ notification = [kind |-> "none"]
    /\ verdict = "none"
    /\ calls = <<>>
    /\ sink = 0
    /\ object = NoObject
    /\ history = NoHistory
    /\ registry = [bound |-> {}, errors |-> 0, fatal |-> FALSE]

\* register(kind, predicate), at start-up
RegistryRegister(k) ==
    /\ ~registry.fatal
    /\ notification.kind = "none"
    /\ registry' = IF k \in registry.bound
                   THEN [registry EXCEPT !.fatal = TRUE]
                   ELSE [registry EXCEPT !.bound = @ \cup {k}]
    /\ UNCHANGED <<notification, verdict, calls, sink, object, history>>

\* evaluate(notification) that answers false for a kind it has no predicate for
RegistryEvaluateDropping ==
    /\ ~registry.fatal
    /\ verdict = "none"
    /\ \E n \in RegistryEvents :
          /\ notification' = n
          /\ IF n.kind \in registry.bound
             THEN /\ verdict' = Evaluate(n)
                  /\ sink' = sink + InfoCalls(n)
                  /\ UNCHANGED registry
             ELSE /\ verdict' = "false"
                  /\ UNCHANGED <<sink, registry>>
    /\ UNCHANGED <<calls, object, history>>

\* evaluate(notification)
RegistryEvaluate ==
    /\ ~registry.fatal
    /\ verdict = "none"
    /\ \E n \in RegistryEvents :
          /\ notification' = n
          /\ IF n.kind \in registry.bound
             THEN /\ verdict' = Evaluate(n)
                  /\ sink' = sink + InfoCalls(n)
                  /\ UNCHANGED registry
             ELSE \/ /\ registry' = [registry EXCEPT !.fatal = TRUE]
                     /\ UNCHANGED <<verdict, sink>>
                  \/ /\ registry' = [registry EXCEPT !.errors = @ + 1]
                     /\ verdict' = "true"
                     /\ UNCHANGED sink
    /\ UNCHANGED <<calls, object, history>>

NextRegistry ==
    \/ \E k \in Kinds : RegistryRegister(k)
    \/ RegistryEvaluate

SpecRegistry == InitRegistry /\ [][NextRegistry]_vars

(***************************************************************************)
(* Properties.                                                             *)
(***************************************************************************)
Done == verdict # "none"
Is(kind, op) ==
    Done /\ notification.kind = kind /\ notification.operation = op
IsUpdate == Done /\ notification.operation = "Update"
OldObj == notification.e.ObjectOld
NewObj == notification.e.ObjectNew
\* the old object of an Update is absent: a nil pointer or the nil interface
OldAbsent == OldObj.rep # "ptr"
\* the old and the new label map hold the same key/value pairs
SameLabelSet == Entries(OldObj.obj.Labels.ins) = Entries(NewObj.obj.Labels.ins)
Unpaused == OldObj.obj.Spec.Paused /\ ~NewObj.obj.Spec.Paused
BecameReady ==
    /\ notification.kind = "SveltosCluster"
    /\ ~OldObj.obj.Status.Ready /\ NewObj.obj.Status.Ready

\* C1: for every kind, an Update whose old object is absent yields true,
\* whatever the new object is (for a machine: whatever its phase is).
C1_AbsentOldYieldsTrue ==
    (IsUpdate /\ OldAbsent) => verdict = "true"

\* C2: a Cluster or SveltosCluster Update yields true if and only if the old
\* object is absent, or the cluster went from paused to unpaused, or (sveltos
\* cluster) from not ready to ready, or the label set changed; every other
\* Update yields false.
C2_ClusterUpdateVerdict ==
    (IsUpdate /\ notification.kind \in ClusterKinds) =>
        verdict = Bool(OldAbsent \/ Unpaused \/ BecameReady \/ ~SameLabelSet)

\* C3: a Machine Update yields false when the new phase is not Running;
\* otherwise true when the old object is absent; otherwise true if and only
\* if the old phase is not Running.
C3_MachineUpdateVerdict ==
    Is("Machine", "Update") =>
        verdict = IF NewObj.obj.Status.Phase # "Running" THEN "false"
                  ELSE IF OldAbsent THEN "true"
                  ELSE Bool(OldObj.obj.Status.Phase # "Running")

\* a Machine Update from Pending to Running has yielded true
C3_Witness ==
    /\ Is("Machine", "Update")
    /\ ~OldAbsent
    /\ OldObj.obj.Status.Phase = "Pending"
    /\ NewObj.obj.Status.Phase = "Running"
    /\ verdict = "true"

\* C4: a Generic event yields false for every kind, whatever the object.
C4_GenericYieldsFalse ==
    (Done /\ notification.operation = "Generic") => verdict = "false"

\* a Generic event of a ClusterSummary with feature summaries has yielded false
C4_Witness ==
    /\ Is("ClusterSummary", "Generic")
    /\ Len(notification.e.Object.obj.Status.FeatureSummaries.elems) > 0
    /\ verdict = "false"

\* C5: every handler returns a boolean on an event of its own kind, also on
\* an Update whose old object is a nil pointer or the nil interface.
C5_NeverFaults ==
    Done => verdict \in {"true", "false"}

\* C6: a Cluster or SveltosCluster Create yields true if and only if the
\* created cluster is not paused.
C6_ClusterCreateVerdict ==
    (Done /\ notification.operation = "Create" /\ notification.kind \in ClusterKinds)
        => verdict = Bool(~notification.e.Object.obj.Spec.Paused)

\* the Create of an unpaused SveltosCluster that is not ready and carries no
\* label map has yielded true
C6_Witness ==
    /\ Is("SveltosCluster", "Create")
    /\ ~notification.e.Object.obj.Spec.Paused
    /\ ~notification.e.Object.obj.Status.Ready
    /\ notification.e.Object.obj.Labels.isNil
    /\ verdict = "true"

\* the Update leaves the cluster unpaused and does not touch its labels
UnpausedLabelsUntouched ==
    /\ IsUpdate /\ notification.kind \in ClusterKinds
    /\ ~OldAbsent
    /\ ~OldObj.obj.Spec.Paused /\ ~NewObj.obj.Spec.Paused
    /\ OldObj.obj.Labels = NewObj.obj.Labels

C8_LabelComparisonIsExact ==
    (IsUpdate /\ notification.kind \in ClusterKinds
       /\ ~OldAbsent /\ ~Unpaused /\ ~BecameReady)
        => (verdict = "true" <=> ~SameLabelSet)

\* C9: a Delete yields true for every kind but Machine, whatever the object.
C9_DeleteYieldsTrue ==
    (Done /\ notification.operation = "Delete" /\ notification.kind # "Machine")
        => verdict = "true"

\* the Delete of a paused Cluster has yielded true
C9_Witness ==
    /\ Is("Cluster", "Delete")
    /\ notification.e.Object.obj.Spec.Paused
    /\ verdict = "true"

\* C10: a Machine Delete yields false, whatever the machine's phase.
C10_MachineDeleteYieldsFalse ==
    Is("Machine", "Delete") => verdict = "false"

\* the Delete of a Running machine has yielded false
C10_Witness ==
    /\ Is("Machine", "Delete")
    /\ notification.e.Object.obj.Status.Phase = "Running"
    /\ verdict = "false"

\* C11: a Machine Create yields true if and only if the machine's phase is
\* Running; every other phase string, empty or unrecognised, yields false.
C11_MachineCreateVerdict ==
    Is("Machine", "Create") =>
        verdict = Bool(notification.e.Object.obj.Status.Phase = "Running")

\* the Create of a machine with an unrecognised phase has yielded false
C11_Witness ==
    /\ Is("Machine", "Create")
    /\ notification.e.Object.obj.Status.Phase = "Bogus"
    /\ verdict = "false"

\* the entries of Status.FeatureSummaries differ between old and new
FeatureSummariesDiffer ==
    OldObj.obj.Status.FeatureSummaries.elems
        # NewObj.obj.Status.FeatureSummaries.elems

\* C12: a ClusterSummary Update yields true if and only if the old object is
\* absent or an entry of Status.FeatureSummaries was added, removed or
\* changed; with FeatureSummaries identical it yields false.
C12_ClusterSummaryUpdateVerdict ==
    Is("ClusterSummary", "Update") =>
        verdict = Bool(OldAbsent \/ FeatureSummariesDiffer)

\* the content of Spec differs between old and new
SpecDiffers ==
    IF notification.kind = "HealthCheckReport"
    THEN \/ OldObj.obj.Spec.HealthCheckName # NewObj.obj.Spec.HealthCheckName
         \/ OldObj.obj.Spec.ResourceStatuses.elems
              # NewObj.obj.Spec.ResourceStatuses.elems
    ELSE \/ OldObj.obj.Spec.EvaluateHealth # NewObj.obj.Spec.EvaluateHealth
         \/ OldObj.obj.Spec.ResourceSelectors.elems
              # NewObj.obj.Spec.ResourceSelectors.elems

\* C13: a HealthCheckReport or HealthCheck Update yields true if and only if
\* the old object is absent or Spec differs between old and new; a change of
\* metadata or status alone yields false.
C13_SpecUpdateVerdict ==
    (IsUpdate /\ notification.kind \in {"HealthCheckReport", "HealthCheck"}) =>
        verdict = Bool(OldAbsent \/ SpecDiffers)

\* C14: a ClusterSummary Create yields false for every summary, also one
\* created with feature summaries.
C14_ClusterSummaryCreateYieldsFalse ==
    Is("ClusterSummary", "Create") => verdict = "false"

\* the Create of a summary that carries feature summaries has yielded false
C14_Witness ==
    /\ Is("ClusterSummary", "Create")
    /\ Len(notification.e.Object.obj.Status.FeatureSummaries.elems) > 0
    /\ verdict = "false"

\* C15: a HealthCheckReport or HealthCheck Create yields true, whatever the
\* created object holds.
C15_ReportAndCheckCreateYieldTrue ==
    (Done /\ notification.operation = "Create"
       /\ notification.kind \in {"HealthCheckReport", "HealthCheck"})
        => verdict = "true"

\* the Create of a HealthCheck without resource selectors has yielded true
C15_Witness ==
    /\ Is("HealthCheck", "Create")
    /\ notification.e.Object.obj.Spec.ResourceSelectors.isNil
    /\ verdict = "true"

\* the pointer with its object, when it has one, stripped of namespace and name
Anonymous(p) ==
    IF p.rep = "ptr"
    THEN Ptr([p.obj EXCEPT !.Namespace = "", !.Name = ""])
    ELSE p
\* notification n with its objects stripped of namespace and name: two
\* notifications that agree on everything else are stripped to the same one
WithoutIdentity(n) ==
    IF n.operation = "Update"
    THEN [n EXCEPT !.e.ObjectOld = Anonymous(@), !.e.ObjectNew = Anonymous(@)]
    ELSE [n EXCEPT !.e.Object = Anonymous(@)]

Expected == <<"true", "true", "true", "false", "false">>

\* C17: in every interleaving of the callers, the cluster Update that
\* unpauses gets true, the machine Update from Provisioning to Running gets
\* true, the report Create gets true, the summary Update with identical
\* FeatureSummaries gets false and the Generic event gets false.
C17_ScenarioVerdicts ==
    \A c \in 1..5 :
        calls[c].pc = "done" => calls[c].verdict = Expected[c]

\* all five submissions have been evaluated, the machine Update after other
\* handlers had logged, while another evaluation is still under way
C17_Witness ==
    /\ \A c \in 1..5 : calls[c].pc = "done" /\ calls[c].verdict = Expected[c]
    /\ \E o \in Callers : calls[o].pc = "running"
    /\ sink >= 4

\* C18: the outcome does not depend on namespace and name: every notification
\* gets the outcome of the notification stripped of them, hence two
\* notifications that differ in nothing else get the same outcome.
C18_VerdictIgnoresIdentity ==
    Done => verdict = Evaluate(WithoutIdentity(notification))

\* a Cluster Update about ns2/b that unpauses the cluster has yielded true
C18_Witness ==
    /\ Is("Cluster", "Update")
    /\ NewObj.obj.Namespace = "ns2" /\ NewObj.obj.Name = "b"
    /\ ~OldAbsent /\ Unpaused
    /\ verdict = "true"

\* C19: no handler changes the event it is given: the old and the new object
\* hold after the call what they held before it.
C19_NotificationUnchanged ==
    [][notification' = notification]_vars

\* a ClusterSummary Update with an old object and changed feature summaries
\* has been evaluated
C19_Witness ==
    /\ Is("ClusterSummary", "Update")
    /\ ~OldAbsent
    /\ FeatureSummariesDiffer
    /\ verdict = "true"

\* the clusterv1.Cluster pointer that matches a SveltosCluster one: the same
\* identity, labels and pause flag; an absent old object stays absent
AsClusterPtr(p) ==
    IF p.rep = "ptr"
    THEN Ptr([Namespace |-> p.obj.Namespace, Name |-> p.obj.Name,
              Labels |-> p.obj.Labels, Spec |-> p.obj.Spec,
              Status |-> [ControlPlaneReady |-> p.obj.Status.Ready]])
    ELSE NilPtr
\* the Cluster notification that matches SveltosCluster notification n
AsCluster(n) ==
    IF n.operation = "Update"
    THEN [kind |-> "Cluster", operation |-> "Update",
          e |-> [ObjectOld |-> AsClusterPtr(n.e.ObjectOld),
                 ObjectNew |-> AsClusterPtr(n.e.ObjectNew)]]
    ELSE [kind |-> "Cluster", operation |-> n.operation,
          e |-> [Object |-> AsClusterPtr(n.e.Object)]]

\* C20: for every operation and every old and new state, the SveltosCluster
\* predicate returns what ClusterPredicate returns on the matching Cluster
\* notification, except on an Update that takes the sveltos cluster from not
\* ready to ready, where it returns true.
C20_ClusterKindsAgree ==
    (Done /\ notification.kind = "SveltosCluster") =>
        verdict = IF notification.operation = "Update" /\ ~OldAbsent /\ BecameReady
                  THEN "true"
                  ELSE Evaluate(AsCluster(notification))

\* an object as reflect.DeepEqual sees it: a label map by its key/value
\* pairs and by whether it is nil
Structure(kind, o) ==
    IF kind \in ClusterKinds
    THEN [o EXCEPT !.Labels = [isNil |-> @.isNil, entries |-> Entries(@.ins)]]
    ELSE o
\* the Update carries an old object that is structurally identical to the new
NoOpUpdate ==
    /\ notification.operation = "Update"
    /\ OldObj.rep = "ptr"
    /\ Structure(notification.kind, OldObj.obj)
         = Structure(notification.kind, NewObj.obj)

\* C25: for every kind, an Update whose old object is present and
\* structurally identical to its new object yields false.
C25_NoOpUpdateYieldsFalse ==
    (Done /\ NoOpUpdate) => verdict = "false"

\* a HealthCheck Update between two identical objects with selectors, and a
\* cluster Update between label maps built in different orders, were dropped
C25_Witness ==
    /\ Done /\ NoOpUpdate /\ verdict = "false"
    /\ \/ /\ notification.kind = "HealthCheck"
          /\ NewObj.obj.Spec.ResourceSelectors.elems # <<>>
       \/ /\ notification.kind \in ClusterKinds
          /\ OldObj.obj.Labels # NewObj.obj.Labels

(***************************************************************************)
(* The earlier predicates for clusterv1.Cluster and clusterv1.Machine:     *)
(* predicate.Funcs bundles, whose handlers get client.Object interface     *)
(* values and narrow them with a type assertion.                           *)
(***************************************************************************)
ClusterPredicatesUpdateFunc(e) ==
    IF TypeAssertionPanics(e.ObjectNew) \/ TypeAssertionPanics(e.ObjectOld)
    THEN "panic"
    ELSE LET newCluster == e.ObjectNew
             oldCluster == e.ObjectOld
         IN  IF oldCluster.rep = "nilptr" THEN "true"
             ELSE IF oldCluster.obj.Spec.Paused /\ ~newCluster.obj.Spec.Paused
                  THEN "true"
             ELSE IF ~DeepEqualMap(oldCluster.obj.Labels, newCluster.obj.Labels)
                  THEN "true"
             ELSE "false"

ClusterPredicatesCreateFunc(e) ==
    IF TypeAssertionPanics(e.Object) THEN "panic"
    ELSE LET cluster == e.Object.obj
         IN  IF ~cluster.Spec.Paused THEN "true" ELSE "false"

ClusterPredicatesDeleteFunc(e) == "true"

ClusterPredicatesGenericFunc(e) == "false"

MachinePredicatesUpdateFunc(e) ==
    IF TypeAssertionPanics(e.ObjectNew) \/ TypeAssertionPanics(e.ObjectOld)
    THEN "panic"
    ELSE LET newMachine == e.ObjectNew
             oldMachine == e.ObjectOld
         IN  IF GetTypedPhase(newMachine.obj.Status) # MachinePhaseRunning
                  THEN "false"
             ELSE IF oldMachine.rep = "nilptr" THEN "true"
             ELSE IF GetTypedPhase(oldMachine.obj.Status)
                       # GetTypedPhase(newMachine.obj.Status)
                  THEN "true"
             ELSE "false"

MachinePredicatesCreateFunc(e) ==
    IF TypeAssertionPanics(e.Object) THEN "panic"
    ELSE LET machine == e.Object.obj
         IN  IF GetTypedPhase(machine.Status) = MachinePhaseRunning
             THEN "true" ELSE "false"

MachinePredicatesDeleteFunc(e) == "false"

MachinePredicatesGenericFunc(e) == "false"

\* the earlier bundle's handler for an event of a cluster or a machine
EvaluateEarlier(n) ==
    CASE n.kind = "Cluster" ->
           (CASE n.operation = "Create"  -> ClusterPredicatesCreateFunc(n.e)
              [] n.operation = "Update"  -> ClusterPredicatesUpdateFunc(n.e)
              [] n.operation = "Delete"  -> ClusterPredicatesDeleteFunc(n.e)
              [] n.operation = "Generic" -> ClusterPredicatesGenericFunc(n.e))
      [] n.kind = "Machine" ->
           (CASE n.operation = "Create"  -> MachinePredicatesCreateFunc(n.e)
              [] n.operation = "Update"  -> MachinePredicatesUpdateFunc(n.e)
              [] n.operation = "Delete"  -> MachinePredicatesDeleteFunc(n.e)
              [] n.operation = "Generic" -> MachinePredicatesGenericFunc(n.e))

\* C26: for every operation and every old/new state pair whose old object is
\* present or a nil pointer of the kind's type, ClusterPredicate and
\* MachinePredicate return the verdict that the earlier bundles
\* ClusterPredicates and MachinePredicates return on the same event.
C26_TypedAgreeWithEarlier ==
    (Done /\ notification.kind \in Typed) =>
        verdict = EvaluateEarlier(notification)

\* a machine Update with a nil old pointer and a new phase other than
\* Running, where the order of the two tests decides, got false from both
C26_Witness ==
    /\ Is("Machine", "Update")
    /\ OldObj.rep = "nilptr"
    /\ GetTypedPhase(NewObj.obj.Status) # MachinePhaseRunning
    /\ verdict = "false"
    /\ EvaluateEarlier(notification) = "false"

\* the object followed over its life exists and is of one of `kinds`
Followed(kinds) == object.kind \in kinds /\ object.exists

\* C22: while a HealthCheckReport or a HealthCheck exists, the Spec carried
\* by the most recent notification about it that yielded true is its current
\* Spec; also after a Delete and a new Create.
C22_LatestTrueCarriesCurrentSpec ==
    Followed({"HealthCheckReport", "HealthCheck"}) =>
        history.lastTrueSpec = <<object.state.Spec>>

\* C23: while a cluster of either kind exists and is not paused, some
\* notification since (and including) its most recent Create has yielded true.
C23_UnpausedClusterAnnounced ==
    (Followed(ClusterKinds) /\ ~object.state.Spec.Paused) => history.announced

\* the latest notification told of a machine entering the Running phase
EnteredRunning ==
    \/ /\ notification.operation = "Create"
       /\ notification.e.Object.obj.Status.Phase = "Running"
    \/ /\ notification.operation = "Update"
       /\ OldObj.obj.Status.Phase # "Running"
       /\ NewObj.obj.Status.Phase = "Running"
\* the latest notification told of a machine leaving the Running phase or
\* being deleted
LeftRunningOrDeleted ==
    \/ notification.operation = "Delete"
    \/ /\ notification.operation = "Update"
       /\ OldObj.obj.Status.Phase = "Running"
       /\ NewObj.obj.Status.Phase # "Running"

\* C24: as long as every Update about a machine has carried its old state, a
\* notification yields true exactly when it is a Create with phase Running or
\* an Update from a phase other than Running to Running; between two
\* consecutive true verdicts the machine has left Running or was deleted; and
\* no notification of leaving Running or of a deletion yields true.
C24_MachineTriggersOnEntryOnly ==
    (object.kind = "Machine" /\ Done /\ ~history.absentOld) =>
        /\ verdict = "true" <=> EnteredRunning
        /\ (history.hadTrue /\ ~history.gap.first) =>
               (history.gap.left \/ history.gap.recreated)
        /\ LeftRunningOrDeleted => verdict # "true"

\* a second true verdict about a machine that had left the Running phase and
\* come back, every Update having carried its old state
C24_Witness ==
    /\ object.kind = "Machine" /\ Done /\ ~history.absentOld
    /\ notification.operation = "Update"
    /\ verdict = "true"
    /\ ~history.gap.first /\ history.gap.left /\ ~history.gap.recreated

\* C21: a notification of a kind that has no predicate bound to it is never
\* quietly dropped: its evaluation is fatal, or it is reported as an error
\* and yields true.
C21_UnboundKindNeverDropped ==
    (notification.kind # "none" /\ notification.kind \notin registry.bound) =>
        \/ registry.fatal
        \/ verdict = "true" /\ registry.errors > 0

\* with some kinds bound, a Generic notification of a kind that is not bound
\* was reported and answered true
C21_Witness ==
    /\ registry.bound # {}
    /\ notification.kind \notin registry.bound \cup {"none"}
    /\ notification.operation = "Generic"
    /\ ~registry.fatal /\ registry.errors = 1
    /\ verdict = "true"

====
